---- MODULE Spec2Model ----
(***************************************************************************)
(* Model of the extraction server of Shaveenf/EFL-POC (server module,      *)
(* src/unnamed/part_000): the POST /api/extract handler, the function      *)
(* extractDataWithOpenAI with its PDF rasterisation, batching, model calls *)
(* and temp-file cleanup, and the pure function mergeExtractedData.        *)
(*                                                                         *)
(* Conventions                                                             *)
(*  - A JavaScript value that may be null/undefined/absent is a sequence   *)
(*    of length 0 (None) or 1 (Some(v)).                                   *)
(*  - A JavaScript number that results from a division is kept exact as a  *)
(*    rational [num, den]; confidences are counted in hundredths.          *)
(*  - Objects live in `heap` (a sequence; the index is the reference), so  *)
(*    that object identity and mutation are observable.                    *)
(*  - One action is one synchronous stretch of code, or one step of a      *)
(*    loop, or one outcome of an awaited external call.                    *)
(***************************************************************************)
EXTENDS Integers, Sequences, FiniteSets, TLC

VARIABLES
    files,              \* the files named by the request, in request order
    disk,               \* [uploads, temp]: the files on disk
    pc,                 \* position of the request in the handler
    reqBody,            \* req.body: [batchSize, documentType], each optional
    batchSize,          \* const batchSize (line 500)
    documentType,       \* const documentType (line 501)
    fileIdx,            \* position of `for (const filePath of files)` (0-based)
    allImagePaths,      \* let allImagePaths (line 310)
    allTempImagePaths,  \* let allTempImagePaths (line 311)
    i,                  \* loop variable of the batch-building loop (line 339)
    batches,            \* const batches (line 338)
    batchIndex,         \* loop variable of the batch loop (line 345)
    allExtractedData,   \* const allExtractedData (line 343): references
    heap,               \* the result objects, by reference
    merged,             \* what mergeExtractedData returned: None or Some(ref)
    calls,              \* the requests sent to the model, in order
    error,              \* the error being thrown: None or Some(kind)
    responses,          \* the HTTP responses sent for the request
    cleanupCalls,       \* how many times cleanupTempImages was invoked
    warned,             \* cleanupTempImages logged its warning (line 278)
    unlinkFails,        \* the files present when cleanupTempImages runs whose
                        \* unlinkSync throws
    other               \* a second request running in the same process

vars == <<files, disk, pc, reqBody, batchSize, documentType, fileIdx, allImagePaths,
          allTempImagePaths, i, batches, batchIndex, allExtractedData, heap,
          merged, calls, error, responses, cleanupCalls, warned, unlinkFails, other>>

(***************************************************************************)
(* Bounds of the model                                                     *)
(***************************************************************************)
MaxFiles == 2
MaxPdfPages == 2
MaxBatchSize == 3
MaxRunaway == 3
MaxResults == 3

\* `req.body.batchSize || 5` (line 500) and the parameter default (line 307)
DefaultBatchSize == 5

None == <<>>
Some(v) == <<v>>
IsSome(o) == Len(o) = 1
Val(o) == o[1]

Min(a, b) == IF a < b THEN a ELSE b
Max(a, b) == IF a > b THEN a ELSE b

RECURSIVE Flatten(_)
Flatten(ss) == IF ss = <<>> THEN <<>> ELSE Head(ss) \o Flatten(Tail(ss))

(***************************************************************************)
(* Files and the disk                                                      *)
(***************************************************************************)
\* A file named by the request: its filename extension, the signature its
\* first bytes carry, its page count when it is a PDF, and whether it is
\* present in the upload directory.
PdfFiles == {[ext |-> "pdf", sig |-> "pdf", npages |-> n, exists |-> TRUE] :
                n \in 0..MaxPdfPages}
ImageFiles == {[ext |-> "png", sig |-> "png", npages |-> 1, exists |-> TRUE],
               [ext |-> "png", sig |-> "pdf", npages |-> 1, exists |-> TRUE]}
MissingFiles == {[ext |-> "png", sig |-> "png", npages |-> 1, exists |-> FALSE]}
FileDomain == PdfFiles \cup ImageFiles \cup MissingFiles

FileLists == UNION {[1..n -> FileDomain] : n \in 0..MaxFiles}

\* The names pdf-poppler gives the pages it writes: page-1.png, page-2.png, ...
\* (out_prefix 'page', line 192); a name is modelled by its page number.
TempNames == 1..MaxPdfPages

UploadPath(n) == [dir |-> "uploads", n |-> n]
TempPath(n) == [dir |-> "temp", n |-> n]

\* fs.existsSync
existsSync(d, p) ==
    IF p.dir = "uploads"
    THEN p.n \in DOMAIN d.uploads /\ d.uploads[p.n]
    ELSE p.n \in DOMAIN d.temp /\ IsSome(d.temp[p.n])

\* fs.readFileSync: the bytes of a file, named by the input file they come
\* from and the page of it they show (0: the uploaded file itself).
readFileSync(d, p) ==
    IF p.dir = "uploads"
    THEN [file |-> p.n, page |-> 0]
    ELSE Val(d.temp[p.n])

\* fs.unlinkSync of a file whose deletion succeeds
unlinkSync(d, p) ==
    IF p.dir = "uploads"
    THEN [d EXCEPT !.uploads[p.n] = FALSE]
    ELSE [d EXCEPT !.temp[p.n] = None]

\* function isPdfFile: the extension must be .pdf AND the first four bytes
\* must be %PDF
isPdfFile(f) ==
    IF f.ext # "pdf" THEN FALSE ELSE f.sig = "pdf"

\* pdf.convert(pdfPath, options) having written the first k pages of input
\* file `idx` into the temp directory, over whatever files had these names
PdfConvert(d, idx, k) ==
    [d EXCEPT !.temp = [n \in TempNames |->
        IF n <= k THEN Some([file |-> idx, page |-> n]) ELSE d.temp[n]]]

\* fs.readdirSync(tempDir) filtered to page*.png, sorted by page number and
\* mapped to paths (lines 200-208 and 270-272)
RECURSIVE TempListingFrom(_, _)
TempListingFrom(d, n) ==
    IF n > MaxPdfPages THEN <<>>
    ELSE (IF IsSome(d.temp[n]) THEN <<TempPath(n)>> ELSE <<>>)
         \o TempListingFrom(d, n + 1)

TempListing(d) == TempListingFrom(d, 1)

\* imagePaths.forEach(p => { if (existsSync(p)) unlinkSync(p) }) where the
\* unlinkSync of every path in `bad` throws: the disk when the loop ends, and
\* whether it ended by a throw
RECURSIVE DeleteEach(_, _, _)
DeleteEach(d, ps, bad) ==
    IF ps = <<>> THEN [disk |-> d, threw |-> FALSE]
    ELSE IF ~existsSync(d, Head(ps)) THEN DeleteEach(d, Tail(ps), bad)
    ELSE IF Head(ps) \in bad THEN [disk |-> d, threw |-> TRUE]
    ELSE DeleteEach(unlinkSync(d, Head(ps)), Tail(ps), bad)

\* function cleanupTempImages(imagePaths): deletes the given paths, then
\* every page*.png of the temp directory; the first unlinkSync that throws
\* ends the whole function (one try around both loops), which logs a
\* warning and returns normally
cleanupTempImages(d, imagePaths, bad) ==
    LET first == DeleteEach(d, imagePaths, bad)
    IN  IF first.threw THEN first.disk
        ELSE DeleteEach(first.disk, TempListing(first.disk), bad).disk

\* Whether that call of cleanupTempImages reaches its catch block: some
\* unlinkSync threw (lines 277-279)
cleanupWarns(d, imagePaths, bad) ==
    LET first == DeleteEach(d, imagePaths, bad)
    IN  IF first.threw THEN TRUE
        ELSE DeleteEach(first.disk, TempListing(first.disk), bad).threw

(***************************************************************************)
(* Extraction results and mergeExtractedData                               *)
(***************************************************************************)
\* Numbers: exact rationals, in hundredths (0.6 is Q(60))
Q(n) == [num |-> n, den |-> 1]
AddQ(a, b) == [num |-> a.num * b.den + b.num * a.den, den |-> a.den * b.den]
DivQ(a, n) == [num |-> a.num, den |-> a.den * n]
EqQ(a, b) == a.num * b.den = b.num * a.den

\* JavaScript truthiness of an optional number: null, undefined and 0 are falsy
Truthy(o) == IsSome(o) /\ Val(o).num # 0

\* `x || []` for an optional array
OrEmpty(o) == IF IsSome(o) THEN Val(o) ELSE <<>>

\* `d.extraction_confidence?.overall || 0`
OverallOrZero(d) ==
    IF IsSome(d.extraction_confidence)
       /\ Truthy(Val(d.extraction_confidence).overall)
    THEN Val(Val(d.extraction_confidence).overall)
    ELSE Q(0)

\* The values with their repetitions kept
UniqKeepsAll(xs, seen) == xs

\* `[...new Set(xs)]`: the distinct values, in order of first appearance
RECURSIVE Uniq(_, _)
Uniq(xs, seen) ==
    IF xs = <<>> THEN <<>>
    ELSE IF Head(xs) \in seen THEN Uniq(Tail(xs), seen)
    ELSE <<Head(xs)>> \o Uniq(Tail(xs), seen \cup {Head(xs)})

\* arr.reduce((sum, d) => sum + (d.extraction_confidence?.overall || 0), 0)
RECURSIVE SumOverall(_, _, _)
SumOverall(h, arr, sum) ==
    IF arr = <<>> THEN sum
    ELSE SumOverall(h, Tail(arr), AddQ(sum, OverallOrZero(h[Head(arr)])))

\* Line items concatenated and then deduplicated
FlatLineItemsDedup(h, arr) ==
    Uniq(Flatten([k \in 1..Len(arr) |-> OrEmpty(h[arr[k]].line_items)]), {})

\* arr.flatMap(data => data.line_items || [])
FlatLineItems(h, arr) ==
    Flatten([k \in 1..Len(arr) |-> OrEmpty(h[arr[k]].line_items)])

\* arr.flatMap(data => data.missing_fields || [])
FlatMissingFields(h, arr) ==
    Flatten([k \in 1..Len(arr) |-> OrEmpty(h[arr[k]].missing_fields)])

\* JSON.parse(JSON.stringify(x)): a new object with the content of h[ref]
JSONClone(h, ref) == [heap |-> Append(h, h[ref]), ref |-> Len(h) + 1]

\* mergeExtractedData without its shortcut for a list of one
mergeNoShortcut(h, arr) ==
    IF Len(arr) = 0 THEN [heap |-> h, ref |-> None]
    ELSE
      LET c == JSONClone(h, arr[1])
          h1 == [c.heap EXCEPT ![c.ref].line_items =
                    Some(FlatLineItems(c.heap, arr))]
          h2 == [h1 EXCEPT ![c.ref].extraction_confidence = Some(
                    [overall |-> Some(DivQ(SumOverall(h1, arr, Q(0)), Len(arr))),
                     line_items |-> Some(Q(Len(Val(h1[c.ref].line_items)))),
                     header |-> None])]
          h3 == [h2 EXCEPT ![c.ref].missing_fields =
                    Some(Uniq(FlatMissingFields(h2, arr), {}))]
      IN  [heap |-> h3, ref |-> Some(c.ref)]

\* mergeExtractedData counting the line items of the first result only
mergeCountsFirst(h, arr) ==
    IF Len(arr) = 0 THEN [heap |-> h, ref |-> None]
    ELSE IF Len(arr) = 1 THEN [heap |-> h, ref |-> Some(arr[1])]
    ELSE
      LET c == JSONClone(h, arr[1])
          h1 == [c.heap EXCEPT ![c.ref].line_items =
                    Some(FlatLineItems(c.heap, arr))]
          h2 == [h1 EXCEPT ![c.ref].extraction_confidence = Some(
                    [overall |-> Some(DivQ(SumOverall(h1, arr, Q(0)), Len(arr))),
                     line_items |-> Some(Q(Len(OrEmpty(h[arr[1]].line_items)))),
                     header |-> None])]
          h3 == [h2 EXCEPT ![c.ref].missing_fields =
                    Some(Uniq(FlatMissingFields(h2, arr), {}))]
      IN  [heap |-> h3, ref |-> Some(c.ref)]

\* function mergeExtractedData(extractedDataArray): the heap after the call
\* and the reference returned (None for null)
mergeExtractedData(h, arr) ==
    IF Len(arr) = 0 THEN [heap |-> h, ref |-> None]
    ELSE IF Len(arr) = 1 THEN [heap |-> h, ref |-> Some(arr[1])]
    ELSE
      LET c == JSONClone(h, arr[1])
          h1 == [c.heap EXCEPT ![c.ref].line_items =
                    Some(FlatLineItems(c.heap, arr))]
          h2 == [h1 EXCEPT ![c.ref].extraction_confidence = Some(
                    [overall |-> IF Len(arr) > 0
                                 THEN Some(DivQ(SumOverall(h1, arr, Q(0)), Len(arr)))
                                 ELSE None,
                     line_items |-> Some(Q(Len(Val(h1[c.ref].line_items)))),
                     header |-> None])]
          h3 == [h2 EXCEPT ![c.ref].missing_fields =
                    Some(Uniq(FlatMissingFields(h2, arr), {}))]
      IN  [heap |-> h3, ref |-> Some(c.ref)]

\* The results a model call can be parsed into. A result has a scalar
\* header field, the arrays line_items, containers and missing_fields, and
\* extraction_confidence with its scores overall, line_items and header (one
\* of the section scores); a field that is None is null or not there.
ConfDomain ==
    {None, Some([overall |-> None, line_items |-> None, header |-> None])}
    \cup {Some([overall |-> Some(Q(v)), line_items |-> Some(Q(1)),
                header |-> Some(Q(90))]) : v \in {60, 80}}
LineItemsDomain == {None, Some(<<"a">>), Some(<<"b", "a">>)}
MissingFieldsDomain == {None, Some(<<"fob_value", "insurance">>)}

\* Invoice-like results: line items, confidences and missing fields vary
ResultDomain ==
    [header : {"H"}, line_items : LineItemsDomain, containers : {None},
     extraction_confidence : ConfDomain, missing_fields : MissingFieldsDomain]

\* Bill-of-lading-like results: no line items; the header, the containers
\* and the missing fields vary
FieldsDomain ==
    [header : {"H1", "H2"}, line_items : {None},
     containers : {None, Some(<<"c1">>), Some(<<"c2", "c1">>)},
     extraction_confidence :
        {Some([overall |-> Some(Q(80)), line_items |-> None,
               header |-> Some(Q(90))])},
     missing_fields : {None, Some(<<"fob_value">>),
                       Some(<<"fob_value", "insurance">>), Some(<<"FOB_VALUE">>)}]

\* The results the model calls of a request are drawn from
ModelOutputs ==
    {r \in ResultDomain :
        /\ r.missing_fields = None
        /\ r.line_items = Some(<<"a">>)
        /\ r.extraction_confidence \in
              {None, Some([overall |-> Some(Q(80)), line_items |-> Some(Q(1)),
                           header |-> Some(Q(90))])}}

(***************************************************************************)
(* The request: POST /api/extract and extractDataWithOpenAI                *)
(***************************************************************************)
\* The values req.body.batchSize and req.body.documentType may carry
BatchSizeInputs == {None} \cup {Some(b) : b \in (-1)..MaxBatchSize}
\* A JSON value of the request body: a string, or a number (written as its
\* digits)
JStr(s) == [type |-> "string", s |-> s]
JNum(s) == [type |-> "number", s |-> s]

DocTypeInputs == {None, Some(JStr("invoice")), Some(JStr("HBL")), Some(JNum("5"))}

\* String.prototype.toUpperCase on the document types of the model
toUpperCase(s) ==
    CASE s = "invoice" -> "INVOICE"
      [] s = "hbl" -> "HBL"
      [] s = "mbl" -> "MBL"
      [] OTHER -> s

\* function getPromptForDocumentType: `documentType?.toUpperCase()` throws a
\* TypeError when documentType is neither nullish nor a string (a number
\* has no toUpperCase method); otherwise the prompt the switch returns
getPromptForDocumentType(dt) ==
    IF dt.type # "string" THEN [threw |-> TRUE, prompt |-> ""]
    ELSE [threw |-> FALSE,
          prompt |-> CASE toUpperCase(dt.s) = "COMMERCIAL_INVOICE" -> "COMMERCIAL_INVOICE_PROMPT"
                       [] toUpperCase(dt.s) = "INVOICE" -> "COMMERCIAL_INVOICE_PROMPT"
                       [] toUpperCase(dt.s) = "HBL" -> "HBLPROMPT"
                       [] toUpperCase(dt.s) = "MBL" -> "MBL_PROMPT"
                       [] OTHER -> "MBL_PROMPT"]

\* slice that stops one element early: the last element of every slice is lost
sliceDropLast(s, start, end) ==
    LET len == Len(s)
        k == IF start < 0 THEN Max(len + start, 0) ELSE Min(start, len)
        final == IF end - 1 < 0 THEN Max(len + end - 1, 0) ELSE Min(end - 1, len)
    IN  SubSeq(s, k + 1, final)

\* Array.prototype.slice(start, end): negative indices count from the end
slice(s, start, end) ==
    LET len == Len(s)
        k == IF start < 0 THEN Max(len + start, 0) ELSE Min(start, len)
        final == IF end < 0 THEN Max(len + end, 0) ELSE Min(end, len)
    IN  SubSeq(s, k + 1, final)

Response(status, success, data, err, missing) ==
    [status |-> status, success |-> success, data |-> data,
     error |-> err, missing |-> missing]

\* The second request when there is none
NoOther == [pc |-> "absent", npages |-> 0, paths |-> <<>>, images |-> <<>>,
            error |-> None]

\* The sets of temp files whose deletion may fail
BadSets == SUBSET {TempPath(n) : n \in TempNames}

Init ==
    /\ files \in FileLists
    /\ disk = [uploads |-> [n \in 1..Len(files) |-> files[n].exists],
               temp |-> [n \in TempNames |-> None]]
    /\ pc = "idle"
    /\ reqBody = [batchSize |-> None, documentType |-> None]
    /\ batchSize = DefaultBatchSize
    /\ documentType = JStr("MBL")
    /\ fileIdx = 0
    /\ allImagePaths = <<>>
    /\ allTempImagePaths = <<>>
    /\ i = 0
    /\ batches = <<>>
    /\ batchIndex = 0
    /\ allExtractedData = <<>>
    /\ heap = <<>>
    /\ merged = None
    /\ calls = <<>>
    /\ error = None
    /\ responses = <<>>
    /\ cleanupCalls = 0
    /\ warned = FALSE
    /\ unlinkFails = {}
    /\ other = NoOther

\* A handler that names only the first missing file
ReceiveNamesFirstMissing ==
    /\ pc = "idle"
    /\ \E bs \in BatchSizeInputs, dt \in DocTypeInputs :
         /\ reqBody' = [batchSize |-> bs, documentType |-> dt]
         /\ batchSize' = IF IsSome(bs) /\ Val(bs) # 0 THEN Val(bs)
                         ELSE DefaultBatchSize
         /\ documentType' = IF IsSome(dt) THEN Val(dt) ELSE JStr("MBL")
    /\ LET missingFiles == SelectSeq([n \in 1..Len(files) |-> UploadPath(n)],
                                     LAMBDA p : ~existsSync(disk, p))
       IN  IF Len(missingFiles) > 0
           THEN /\ responses' = Append(responses,
                     Response(404, None, None, Some("File(s) not found"),
                              <<missingFiles[1]>>))
                /\ pc' = "done"
           ELSE /\ responses' = responses
                /\ pc' = "files"
    /\ UNCHANGED <<files, disk, fileIdx, allImagePaths, allTempImagePaths, i,
                   batches, batchIndex, allExtractedData, heap, merged, calls,
                   error, cleanupCalls, warned, unlinkFails, other>>

\* POST /api/extract up to the call of extractDataWithOpenAI (lines 497-530).
\* `files` is the resolved filePaths, whichever way the body named them
\* (filePaths, filePath, or neither: the default image).
Receive ==
    /\ pc = "idle"
    /\ \E bs \in BatchSizeInputs, dt \in DocTypeInputs :
         /\ reqBody' = [batchSize |-> bs, documentType |-> dt]
         /\ batchSize' = IF IsSome(bs) /\ Val(bs) # 0 THEN Val(bs)
                         ELSE DefaultBatchSize
         /\ documentType' = IF IsSome(dt) THEN Val(dt) ELSE JStr("MBL")
    /\ LET missingFiles == SelectSeq([n \in 1..Len(files) |-> UploadPath(n)],
                                     LAMBDA p : ~existsSync(disk, p))
       IN  IF Len(missingFiles) > 0
           THEN /\ responses' = Append(responses,
                     Response(404, None, None, Some("File(s) not found"), missingFiles))
                /\ pc' = "done"
           ELSE /\ responses' = responses
                /\ pc' = "files"
    /\ UNCHANGED <<files, disk, fileIdx, allImagePaths, allTempImagePaths, i,
                   batches, batchIndex, allExtractedData, heap, merged, calls,
                   error, cleanupCalls, warned, unlinkFails, other>>

\* A file loop that also registers a directly supplied image for cleanup
FileStepImageIsTemp ==
    /\ pc = "files"
    /\ fileIdx < Len(files)
    /\ IF isPdfFile(files[fileIdx + 1])
       THEN /\ pc' = "converting"
            /\ UNCHANGED <<fileIdx, allImagePaths, allTempImagePaths>>
       ELSE /\ allImagePaths' = Append(allImagePaths, UploadPath(fileIdx + 1))
            /\ allTempImagePaths' = Append(allTempImagePaths, UploadPath(fileIdx + 1))
            /\ fileIdx' = fileIdx + 1
            /\ pc' = "files"
    /\ UNCHANGED <<files, reqBody, disk, batchSize, documentType, i,
                   batches, batchIndex, allExtractedData, heap, merged, calls,
                   error, responses, cleanupCalls, warned, unlinkFails, other>>

\* One iteration of `for (const filePath of files)` up to its await or its
\* end (lines 315-325)
FileStep ==
    /\ pc = "files"
    /\ fileIdx < Len(files)
    /\ IF isPdfFile(files[fileIdx + 1])
       THEN /\ pc' = "converting"
            /\ UNCHANGED <<fileIdx, allImagePaths>>
       ELSE /\ allImagePaths' = Append(allImagePaths, UploadPath(fileIdx + 1))
            /\ fileIdx' = fileIdx + 1
            /\ pc' = "files"
    /\ UNCHANGED <<files, reqBody, disk, batchSize, documentType, allTempImagePaths, i,
                   batches, batchIndex, allExtractedData, heap, merged, calls,
                   error, responses, cleanupCalls, warned, unlinkFails, other>>

\* pdf.convert resolves: convertPdfToImages returns the listing of the temp
\* directory, which the caller appends to both lists (lines 197-211, 318-320)
ConvertResolve ==
    /\ pc = "converting"
    /\ LET d == PdfConvert(disk, fileIdx + 1, files[fileIdx + 1].npages)
           pdfImages == TempListing(d)
       IN  /\ disk' = d
           /\ allImagePaths' = allImagePaths \o pdfImages
           /\ allTempImagePaths' = allTempImagePaths \o pdfImages
    /\ fileIdx' = fileIdx + 1
    /\ pc' = "files"
    /\ UNCHANGED <<files, reqBody, batchSize, documentType, i, batches, batchIndex,
                   allExtractedData, heap, merged, calls, error, responses,
                   cleanupCalls, warned, unlinkFails, other>>

\* pdf.convert rejects after having written k pages; convertPdfToImages
\* rethrows (lines 212-215)
ConvertReject ==
    /\ pc = "converting"
    /\ \E k \in 0..files[fileIdx + 1].npages :
         disk' = PdfConvert(disk, fileIdx + 1, k)
    /\ error' = Some("Failed to convert PDF to images")
    /\ pc' = "catch"
    /\ UNCHANGED <<files, reqBody, batchSize, documentType, fileIdx, allImagePaths,
                   allTempImagePaths, i, batches, batchIndex, allExtractedData,
                   heap, merged, calls, responses, cleanupCalls, warned, unlinkFails, other>>

\* The end of the file loop: the check of the page list and the selection
\* of the prompt (lines 327-338)
FilesDone ==
    /\ pc = "files"
    /\ fileIdx = Len(files)
    /\ IF Len(allImagePaths) = 0
       THEN /\ error' = Some("No images to process")
            /\ pc' = "catch"
       ELSE IF getPromptForDocumentType(documentType).threw
       THEN /\ error' = Some("documentType?.toUpperCase is not a function")
            /\ pc' = "catch"
       ELSE /\ error' = error
            /\ pc' = "batching"
    /\ i' = 0
    /\ batches' = <<>>
    /\ UNCHANGED <<files, reqBody, disk, batchSize, documentType, fileIdx, allImagePaths,
                   allTempImagePaths, batchIndex, allExtractedData, heap, merged,
                   calls, responses, cleanupCalls, warned, unlinkFails, other>>

\* The batch-building loop advancing by one page instead of by batchSize
BatchingStepByOne ==
    /\ pc = "batching"
    /\ i < Len(allImagePaths)
    /\ batchSize > 0 \/ Len(batches) < MaxRunaway
    /\ batches' = Append(batches, SubSeq(allImagePaths, i + 1,
                                         Min(i + batchSize, Len(allImagePaths))))
    /\ i' = i + 1
    /\ UNCHANGED <<files, reqBody, disk, pc, batchSize, documentType, fileIdx,
                   allImagePaths, allTempImagePaths, batchIndex,
                   allExtractedData, heap, merged, calls, error, responses,
                   cleanupCalls, warned, unlinkFails, other>>

\* One iteration of the batch-building loop (lines 339-341). With a batch
\* size below 1 the loop never ends; the model follows it for MaxRunaway
\* iterations.
BatchingStep ==
    /\ pc = "batching"
    /\ i < Len(allImagePaths)
    /\ batchSize > 0 \/ Len(batches) < MaxRunaway
    /\ batches' = Append(batches, slice(allImagePaths, i, i + batchSize))
    /\ i' = i + batchSize
    /\ UNCHANGED <<files, reqBody, disk, pc, batchSize, documentType, fileIdx,
                   allImagePaths, allTempImagePaths, batchIndex,
                   allExtractedData, heap, merged, calls, error, responses,
                   cleanupCalls, warned, unlinkFails, other>>

\* The exit of the batch-building loop (lines 339, 343-345)
BatchingDone ==
    /\ pc = "batching"
    /\ ~(i < Len(allImagePaths))
    /\ pc' = "batch"
    /\ batchIndex' = 0
    /\ allExtractedData' = <<>>
    /\ UNCHANGED <<files, reqBody, disk, batchSize, documentType, fileIdx, allImagePaths,
                   allTempImagePaths, i, batches, heap, merged, calls, error,
                   responses, cleanupCalls, warned, unlinkFails, other>>

\* A batch loop that sends every remaining batch without awaiting any
BatchPrepareAll ==
    /\ pc = "batch"
    /\ batchIndex < Len(batches)
    /\ IF \E b \in (batchIndex + 1)..Len(batches) :
             \E k \in 1..Len(batches[b]) : ~existsSync(disk, batches[b][k])
       THEN /\ error' = Some("Image file not found")
            /\ pc' = "catch"
            /\ calls' = calls
       ELSE /\ calls' = calls \o
                     [b \in 1..(Len(batches) - batchIndex) |->
                        [prompt |-> getPromptForDocumentType(documentType).prompt,
                         images |-> [k \in 1..Len(batches[batchIndex + b]) |->
                                       readFileSync(disk, batches[batchIndex + b][k])]]]
            /\ pc' = "calling"
            /\ error' = error
    /\ UNCHANGED <<files, reqBody, disk, batchSize, documentType, fileIdx, allImagePaths,
                   allTempImagePaths, i, batches, batchIndex, allExtractedData,
                   heap, merged, responses, cleanupCalls, warned, unlinkFails, other>>

\* A batch loop that sends the master-bill prompt whatever the document type
BatchPrepareDefaultPrompt ==
    /\ pc = "batch"
    /\ batchIndex < Len(batches)
    /\ LET batch == batches[batchIndex + 1]
       IN  IF \E k \in 1..Len(batch) : ~existsSync(disk, batch[k])
           THEN /\ error' = Some("Image file not found")
                /\ pc' = "catch"
                /\ calls' = calls
           ELSE /\ calls' = Append(calls,
                     [prompt |-> "MBL_PROMPT",
                      images |-> [k \in 1..Len(batch) |-> readFileSync(disk, batch[k])]])
                /\ pc' = "calling"
                /\ error' = error
    /\ UNCHANGED <<files, reqBody, disk, batchSize, documentType, fileIdx, allImagePaths,
                   allTempImagePaths, i, batches, batchIndex, allExtractedData,
                   heap, merged, responses, cleanupCalls, warned, unlinkFails, other>>

\* One iteration of the batch loop up to its await: every image of the
\* batch is read, and the request is sent (lines 346-383)
BatchPrepare ==
    /\ pc = "batch"
    /\ batchIndex < Len(batches)
    /\ LET batch == batches[batchIndex + 1]
       IN  IF \E k \in 1..Len(batch) : ~existsSync(disk, batch[k])
           THEN /\ error' = Some("Image file not found")
                /\ pc' = "catch"
                /\ calls' = calls
           ELSE /\ calls' = Append(calls,
                     [prompt |-> getPromptForDocumentType(documentType).prompt,
                      images |-> [k \in 1..Len(batch) |-> readFileSync(disk, batch[k])]])
                /\ pc' = "calling"
                /\ error' = error
    /\ UNCHANGED <<files, reqBody, disk, batchSize, documentType, fileIdx, allImagePaths,
                   allTempImagePaths, i, batches, batchIndex, allExtractedData,
                   heap, merged, responses, cleanupCalls, warned, unlinkFails, other>>

\* fs.readFileSync throws while an image of the batch is read (line 105)
BatchReadFail ==
    /\ pc = "batch"
    /\ batchIndex < Len(batches)
    /\ Len(batches[batchIndex + 1]) > 0
    /\ error' = Some("read failed")
    /\ pc' = "catch"
    /\ UNCHANGED <<files, reqBody, disk, batchSize, documentType, fileIdx, allImagePaths,
                   allTempImagePaths, i, batches, batchIndex, allExtractedData,
                   heap, merged, calls, responses, cleanupCalls, warned, unlinkFails, other>>

\* The model call resolves with a JSON object (lines 385-389)
CallResolve ==
    /\ pc = "calling"
    /\ \E r \in ModelOutputs :
         /\ heap' = Append(heap, r)
         /\ allExtractedData' = Append(allExtractedData, Len(heap) + 1)
    /\ batchIndex' = batchIndex + 1
    /\ pc' = "batch"
    /\ UNCHANGED <<files, reqBody, disk, batchSize, documentType, fileIdx, allImagePaths,
                   allTempImagePaths, i, batches, merged, calls, error,
                   responses, cleanupCalls, warned, unlinkFails, other>>

\* A rejected model call after which the same batch is sent again
CallRejectRetries ==
    /\ pc = "calling"
    /\ pc' = "batch"
    /\ UNCHANGED <<files, reqBody, disk, batchSize, documentType, fileIdx, allImagePaths,
                   allTempImagePaths, i, batches, batchIndex, allExtractedData,
                   heap, merged, calls, error, responses, cleanupCalls, warned,
                   unlinkFails, other>>

\* The model call rejects (line 370)
CallReject ==
    /\ pc = "calling"
    /\ error' = Some("provider error")
    /\ pc' = "catch"
    /\ UNCHANGED <<files, reqBody, disk, batchSize, documentType, fileIdx, allImagePaths,
                   allTempImagePaths, i, batches, batchIndex, allExtractedData,
                   heap, merged, calls, responses, cleanupCalls, warned, unlinkFails, other>>

\* The model call resolves with text JSON.parse throws on (line 386)
CallMalformed ==
    /\ pc = "calling"
    /\ error' = Some("Unexpected token")
    /\ pc' = "catch"
    /\ UNCHANGED <<files, reqBody, disk, batchSize, documentType, fileIdx, allImagePaths,
                   allTempImagePaths, i, batches, batchIndex, allExtractedData,
                   heap, merged, calls, responses, cleanupCalls, warned, unlinkFails, other>>

\* Finish without the cleanup of the success path
FinishNoCleanup ==
    /\ pc = "batch"
    /\ ~(batchIndex < Len(batches))
    /\ LET m == mergeExtractedData(heap, allExtractedData)
       IN  /\ heap' = m.heap
           /\ merged' = m.ref
           /\ responses' = Append(responses,
                 Response(200, Some(TRUE),
                          IF IsSome(m.ref) THEN Some(m.heap[Val(m.ref)]) ELSE None,
                          None, <<>>))
    /\ pc' = "done"
    /\ UNCHANGED <<files, reqBody, disk, cleanupCalls, warned, unlinkFails, other,
                   batchSize, documentType,
                   fileIdx, allImagePaths, allTempImagePaths, i, batches,
                   batchIndex, allExtractedData, calls, error>>

\* After the last batch: merge, cleanup, return, and the handler's success
\* response (lines 392-400, 532-538)
Finish ==
    /\ pc = "batch"
    /\ ~(batchIndex < Len(batches))
    /\ LET m == mergeExtractedData(heap, allExtractedData)
       IN  /\ heap' = m.heap
           /\ merged' = m.ref
           /\ responses' = Append(responses,
                 Response(200, Some(TRUE),
                          IF IsSome(m.ref) THEN Some(m.heap[Val(m.ref)]) ELSE None,
                          None, <<>>))
    /\ IF Len(allTempImagePaths) > 0
       THEN /\ \E bad \in BadSets :
                 /\ disk' = cleanupTempImages(disk, allTempImagePaths, bad)
                 /\ warned' = cleanupWarns(disk, allTempImagePaths, bad)
                 /\ unlinkFails' = {p \in bad : existsSync(disk, p)}
            /\ cleanupCalls' = cleanupCalls + 1
       ELSE UNCHANGED <<disk, cleanupCalls, warned, unlinkFails>>
    /\ pc' = "done"
    /\ UNCHANGED <<files, reqBody, batchSize, documentType, fileIdx, allImagePaths,
                   allTempImagePaths, i, batches, batchIndex, allExtractedData,
                   calls, error, other>>

\* A catch block that answers with what the earlier batches gave
CatchReturnsPartial ==
    /\ pc = "catch"
    /\ IF Len(allTempImagePaths) > 0
       THEN /\ \E bad \in BadSets :
                 /\ disk' = cleanupTempImages(disk, allTempImagePaths, bad)
                 /\ warned' = cleanupWarns(disk, allTempImagePaths, bad)
                 /\ unlinkFails' = {p \in bad : existsSync(disk, p)}
            /\ cleanupCalls' = cleanupCalls + 1
       ELSE UNCHANGED <<disk, cleanupCalls, warned, unlinkFails>>
    /\ responses' = Append(responses,
          Response(200, Some(TRUE),
                   IF Len(allExtractedData) > 0
                   THEN Some(heap[allExtractedData[1]]) ELSE None,
                   error, <<>>))
    /\ pc' = "done"
    /\ UNCHANGED <<files, reqBody, batchSize, documentType, fileIdx,
                   allImagePaths, allTempImagePaths, i, batches, batchIndex,
                   allExtractedData, heap, merged, calls, error, other>>

\* A catch block whose cleanup lets a deletion failure escape, so that the
\* deletion failure is what the handler reports
CatchCleanupRaises ==
    /\ pc = "catch"
    /\ IF Len(allTempImagePaths) > 0
       THEN /\ \E bad \in BadSets :
                 /\ disk' = cleanupTempImages(disk, allTempImagePaths, bad)
                 /\ warned' = cleanupWarns(disk, allTempImagePaths, bad)
                 /\ unlinkFails' = {p \in bad : existsSync(disk, p)}
                 /\ error' = IF cleanupWarns(disk, allTempImagePaths, bad)
                             THEN Some("unlink failed") ELSE error
            /\ cleanupCalls' = cleanupCalls + 1
       ELSE UNCHANGED <<disk, cleanupCalls, warned, unlinkFails, error>>
    /\ responses' = Append(responses, Response(500, Some(FALSE), None, error', <<>>))
    /\ pc' = "done"
    /\ UNCHANGED <<files, reqBody, batchSize, documentType, fileIdx, allImagePaths,
                   allTempImagePaths, i, batches, batchIndex, allExtractedData,
                   heap, merged, calls, other>>

\* The catch block of extractDataWithOpenAI, its rethrow, and the handler's
\* catch block (lines 401-416, 540-546)
Catch ==
    /\ pc = "catch"
    /\ IF Len(allTempImagePaths) > 0
       THEN /\ \E bad \in BadSets :
                 /\ disk' = cleanupTempImages(disk, allTempImagePaths, bad)
                 /\ warned' = cleanupWarns(disk, allTempImagePaths, bad)
                 /\ unlinkFails' = {p \in bad : existsSync(disk, p)}
            /\ cleanupCalls' = cleanupCalls + 1
       ELSE UNCHANGED <<disk, cleanupCalls, warned, unlinkFails>>
    /\ responses' = Append(responses, Response(500, Some(FALSE), None, error, <<>>))
    /\ pc' = "done"
    /\ UNCHANGED <<files, reqBody, batchSize, documentType, fileIdx, allImagePaths,
                   allTempImagePaths, i, batches, batchIndex, allExtractedData,
                   heap, merged, calls, error, other>>

Next ==
    \/ Receive
    \/ FileStep
    \/ ConvertResolve
    \/ ConvertReject
    \/ FilesDone
    \/ BatchingStep
    \/ BatchingDone
    \/ BatchPrepare
    \/ BatchReadFail
    \/ CallResolve
    \/ CallReject
    \/ CallMalformed
    \/ Finish
    \/ Catch

Spec == Init /\ [][Next]_vars

\* The same with every step that can be taken eventually taken: each
\* synchronous stretch of the handler runs on, and each awaited rasterization
\* or model call eventually resolves or rejects
SpecLive == Init /\ [][Next]_vars /\ WF_vars(Next)

(***************************************************************************)
(* mergeExtractedData on its own: every list of up to MaxResults results   *)
(***************************************************************************)
InitMerge ==
    /\ heap \in UNION {[1..n -> ResultDomain] : n \in 0..MaxResults}
    /\ allExtractedData = [k \in 1..Len(heap) |-> k]
    /\ pc = "merge"
    /\ files = <<>>
    /\ disk = [uploads |-> <<>>, temp |-> [n \in TempNames |-> None]]
    /\ reqBody = [batchSize |-> None, documentType |-> None]
    /\ batchSize = DefaultBatchSize
    /\ documentType = JStr("MBL")
    /\ fileIdx = 0
    /\ allImagePaths = <<>>
    /\ allTempImagePaths = <<>>
    /\ i = 0
    /\ batches = <<>>
    /\ batchIndex = 0
    /\ merged = None
    /\ calls = <<>>
    /\ error = None
    /\ responses = <<>>
    /\ cleanupCalls = 0
    /\ warned = FALSE
    /\ unlinkFails = {}
    /\ other = NoOther

\* const mergedData = mergeExtractedData(allExtractedData) (line 393)
MergeCall ==
    /\ pc = "merge"
    /\ LET m == mergeExtractedData(heap, allExtractedData)
       IN  /\ heap' = m.heap
           /\ merged' = m.ref
    /\ pc' = "merged"
    /\ UNCHANGED <<files, disk, reqBody, batchSize, documentType, fileIdx,
                   allImagePaths, allTempImagePaths, i, batches, batchIndex,
                   allExtractedData, calls, error, responses, cleanupCalls, warned, unlinkFails, other>>

NextMerge == MergeCall

SpecMerge == InitMerge /\ [][NextMerge]_vars

\* The same on every list of up to MaxResults bill-of-lading-like results
InitMergeFields ==
    /\ heap \in UNION {[1..n -> FieldsDomain] : n \in 0..MaxResults}
    /\ allExtractedData = [k \in 1..Len(heap) |-> k]
    /\ pc = "merge"
    /\ files = <<>>
    /\ disk = [uploads |-> <<>>, temp |-> [n \in TempNames |-> None]]
    /\ reqBody = [batchSize |-> None, documentType |-> None]
    /\ batchSize = DefaultBatchSize
    /\ documentType = JStr("MBL")
    /\ fileIdx = 0
    /\ allImagePaths = <<>>
    /\ allTempImagePaths = <<>>
    /\ i = 0
    /\ batches = <<>>
    /\ batchIndex = 0
    /\ merged = None
    /\ calls = <<>>
    /\ error = None
    /\ responses = <<>>
    /\ cleanupCalls = 0
    /\ warned = FALSE
    /\ unlinkFails = {}
    /\ other = NoOther

SpecMergeFields == InitMergeFields /\ [][NextMerge]_vars

(***************************************************************************)
(* Two requests in one process.  The first is the request of Spec; the     *)
(* second asks for one PDF of other.npages pages, which exists, with the   *)
(* default batch size and document type; its rasterization and its model   *)
(* call resolve, and its deletions succeed.  Both use the one temp         *)
(* directory (TEMP_IMAGES_DIR, line 24).  A request runs from one await to *)
(* the next without the other running in between.                          *)
(***************************************************************************)
\* The file index under which the pages of the second request's PDF are
\* recorded
OtherFile == 0

InitTwo ==
    /\ files \in {fl \in FileLists :
                    /\ \A n \in 1..Len(fl) : fl[n].exists
                    /\ \E n \in 1..Len(fl) : isPdfFile(fl[n]) /\ fl[n].npages >= 1}
    /\ disk = [uploads |-> [n \in 1..Len(files) |-> files[n].exists],
               temp |-> [n \in TempNames |-> None]]
    /\ pc = "idle"
    /\ reqBody = [batchSize |-> None, documentType |-> None]
    /\ batchSize = DefaultBatchSize
    /\ documentType = JStr("MBL")
    /\ fileIdx = 0
    /\ allImagePaths = <<>>
    /\ allTempImagePaths = <<>>
    /\ i = 0
    /\ batches = <<>>
    /\ batchIndex = 0
    /\ allExtractedData = <<>>
    /\ heap = <<>>
    /\ merged = None
    /\ calls = <<>>
    /\ error = None
    /\ responses = <<>>
    /\ cleanupCalls = 0
    /\ warned = FALSE
    /\ unlinkFails = {}
    /\ \E np \in 1..MaxPdfPages :
         other = [pc |-> "idle", npages |-> np, paths |-> <<>>, images |-> <<>>,
                  error |-> None]

\* The first request is not running: it has not arrived, it awaits a
\* rasterization or a model call, or it has been answered.  Only then can
\* the second request run (one thread)
AtAwait == pc \in {"idle", "converting", "calling", "done"}

\* The second request from its arrival to the await of convertPdfToImages
\* (lines 497-530, 315-318, 179-198)
OtherFileStep ==
    /\ AtAwait
    /\ other.pc = "idle"
    /\ other' = [other EXCEPT !.pc = "converting"]
    /\ UNCHANGED <<files, disk, pc, reqBody, batchSize, documentType, fileIdx,
                   allImagePaths, allTempImagePaths, i, batches, batchIndex,
                   allExtractedData, heap, merged, calls, error, responses,
                   cleanupCalls, warned, unlinkFails>>

\* The rasterizer, a process of its own, has written the pages of the
\* second request's PDF over whatever has these names (lines 190-198)
OtherRasterize ==
    /\ AtAwait
    /\ other.pc = "converting"
    /\ disk' = PdfConvert(disk, OtherFile, other.npages)
    /\ other' = [other EXCEPT !.pc = "converted"]
    /\ UNCHANGED <<files, pc, reqBody, batchSize, documentType, fileIdx,
                   allImagePaths, allTempImagePaths, i, batches, batchIndex,
                   allExtractedData, heap, merged, calls, error, responses,
                   cleanupCalls, warned, unlinkFails>>

\* Its pdf.convert resolves and the request runs on to its next await: the
\* temp directory is listed, the file loop ends, the only batch is built and
\* its images are read (lines 199-211, 318-383).  Without a page the request
\* throws and is answered 500, with nothing to clean up (lines 327-329,
\* 401-416)
OtherConvertResolve ==
    /\ AtAwait
    /\ other.pc = "converted"
    /\ LET pdfImages == TempListing(disk)
           batch == slice(pdfImages, 0, DefaultBatchSize)
       IN  IF Len(pdfImages) = 0
           THEN other' = [other EXCEPT !.pc = "done",
                                       !.error = Some("No images to process")]
           ELSE other' = [other EXCEPT !.pc = "calling", !.paths = pdfImages,
                             !.images = [k \in 1..Len(batch) |->
                                           readFileSync(disk, batch[k])]]
    /\ UNCHANGED <<files, disk, pc, reqBody, batchSize, documentType, fileIdx,
                   allImagePaths, allTempImagePaths, i, batches, batchIndex,
                   allExtractedData, heap, merged, calls, error, responses,
                   cleanupCalls, warned, unlinkFails>>

\* Its model call resolves: merge, cleanup and response (lines 385-400)
OtherFinish ==
    /\ AtAwait
    /\ other.pc = "calling"
    /\ disk' = IF Len(other.paths) > 0
               THEN cleanupTempImages(disk, other.paths, {})
               ELSE disk
    /\ other' = [other EXCEPT !.pc = "done"]
    /\ UNCHANGED <<files, pc, reqBody, batchSize, documentType, fileIdx,
                   allImagePaths, allTempImagePaths, i, batches, batchIndex,
                   allExtractedData, heap, merged, calls, error, responses,
                   cleanupCalls, warned, unlinkFails>>

NextTwo ==
    \/ Next
    \/ OtherFileStep
    \/ OtherRasterize
    \/ OtherConvertResolve
    \/ OtherFinish

SpecTwo == InitTwo /\ [][NextTwo]_vars

(***************************************************************************)
(* Properties                                                              *)
(***************************************************************************)
\* The request is inside the batch loop: `batches` is complete
InBatchLoop == pc \in {"batch", "calling"}

\* ceil(n / b) for b > 0
CeilDiv(n, b) == (n + b - 1) \div b

\* C1: for every page sequence and every batch size B > 0, the batches built
\* by extractDataWithOpenAI, concatenated in batch order, are the page
\* sequence itself: no page lost, duplicated or moved.
C1_BatchesConcatToPages ==
    (InBatchLoop /\ batchSize > 0) => Flatten(batches) = allImagePaths

\* C1 witness: three pages or more were split into several batches, the last
\* one shorter than the batch size
C1_Witness ==
    /\ InBatchLoop
    /\ batchSize > 1
    /\ Len(allImagePaths) >= 3
    /\ Len(batches) >= 2
    /\ Len(batches[Len(batches)]) < batchSize

\* C2: for N >= 1 pages and batch size B > 0 there are exactly ceil(N/B)
\* batches, every batch but the last holds exactly B pages, the last holds
\* N mod B pages (B when B divides N), and no batch is empty.
C2_BatchSizes ==
    LET N == Len(allImagePaths)
        B == batchSize
    IN  (InBatchLoop /\ B > 0 /\ N >= 1) =>
          /\ Len(batches) = CeilDiv(N, B)
          /\ \A k \in 1..(Len(batches) - 1) : Len(batches[k]) = B
          /\ Len(batches[Len(batches)]) = (IF N % B = 0 THEN B ELSE N % B)
          /\ \A k \in 1..Len(batches) : Len(batches[k]) > 0

\* C2 witness: three pages in batches of two: a full batch, then a shorter one
C2_Witness ==
    /\ InBatchLoop
    /\ batchSize = 2
    /\ Len(allImagePaths) = 3
    /\ Len(batches) = 2

\* The input results of the merge, and the object it returned
Inputs == [k \in 1..Len(allExtractedData) |-> heap[allExtractedData[k]]]
MergedObj == heap[Val(merged)]

\* d.extraction_confidence.overall is there and is not null
OverallPresent(d) ==
    IsSome(d.extraction_confidence) /\ IsSome(Val(d.extraction_confidence).overall)

PresentOveralls ==
    LET ps == SelectSeq(Inputs, OverallPresent)
    IN  [k \in 1..Len(ps) |-> Val(Val(ps[k].extraction_confidence).overall)]

RECURSIVE SumQ(_)
SumQ(qs) == IF qs = <<>> THEN Q(0) ELSE AddQ(Head(qs), SumQ(Tail(qs)))

MergedOverall == Val(MergedObj.extraction_confidence).overall

\* C3: merging several batch results sets extraction_confidence.overall to
\* the arithmetic mean of the per-batch overall values that are present;
\* results whose overall is null or absent count neither in the sum nor in
\* the divisor.
C3_OverallIsMeanOfPresent ==
    (pc = "merged" /\ Len(allExtractedData) >= 2 /\ Len(PresentOveralls) > 0) =>
        /\ IsSome(MergedOverall)
        /\ EqQ(Val(MergedOverall),
               DivQ(SumQ(PresentOveralls), Len(PresentOveralls)))

\* C4: after an extraction request has ended, by success or by a failure at
\* any stage, no page image the rasteriser wrote for it is left on disk.
C4_NoTempFileLeft ==
    pc = "done" => \A n \in TempNames : disk.temp[n] = None

\* The pages of the request's files, file after file: a PDF gives its pages
\* in order, any other file gives itself
RECURSIVE PagesOfFiles(_)
PagesOfFiles(n) ==
    IF n = 0 THEN <<>>
    ELSE PagesOfFiles(n - 1) \o
         (IF isPdfFile(files[n])
          THEN [p \in 1..files[n].npages |-> [file |-> n, page |-> p]]
          ELSE <<[file |-> n, page |-> 0]>>)

Succeeded == pc = "done" /\ Len(responses) = 1 /\ responses[1].status = 200

\* C5: the pages sent to the model are the per-file page sequences
\* concatenated in the order the files were given, each page of each file
\* exactly once, for any mix of PDFs and images.
C5_PagesInFileOrder ==
    Succeeded =>
        Flatten([k \in 1..Len(calls) |-> calls[k].images]) = PagesOfFiles(Len(files))

BatchFailed == error \in {Some("provider error"), Some("Unexpected token")}

\* C6 as claimed: if the model call or the parsing of batch k fails, the
\* request fails with that error, no later batch is submitted, nothing of the
\* earlier batches is returned, and cleanupTempImages still runs.
C6_BatchFailureAborts_Claimed ==
    (pc = "done" /\ BatchFailed) =>
        /\ responses = <<Response(500, Some(FALSE), None, error, <<>>)>>
        /\ Len(calls) = batchIndex + 1
        /\ cleanupCalls = 1

\* C6 as amended: if the model call or the parsing of batch k fails, the
\* request fails with that error, no later batch is submitted, nothing of the
\* earlier batches is returned, and cleanupTempImages runs once when the
\* request rasterised PDF pages (and is not invoked when it did not).
C6_BatchFailureAborts ==
    (pc = "done" /\ BatchFailed) =>
        /\ responses = <<Response(500, Some(FALSE), None, error, <<>>)>>
        /\ Len(calls) = batchIndex + 1
        /\ cleanupCalls = (IF Len(allTempImagePaths) > 0 THEN 1 ELSE 0)

\* C6 witness: the first batch succeeded, the second failed, and the request
\* had rasterised pages
C6_Witness ==
    /\ pc = "done"
    /\ BatchFailed
    /\ batchIndex = 1
    /\ Len(allExtractedData) = 1
    /\ Len(allTempImagePaths) > 0

\* The request went into extractDataWithOpenAI and came out of it
Exited == pc = "done" /\ responses[1].status # 404

\* C7 as claimed: cleanupTempImages is invoked exactly once per extraction
\* request on every exit path, never zero times and never twice.
C7_CleanupExactlyOnce_Claimed ==
    /\ cleanupCalls <= 1
    /\ Exited => cleanupCalls = 1

\* C7 as amended: cleanupTempImages is invoked at most once per request, and
\* only on exit; a request that exits with a non-empty allTempImagePaths
\* invoked it exactly once, a request that exits with an empty one never.
C7_CleanupOnceIfTemp ==
    /\ cleanupCalls <= 1
    /\ pc # "done" => cleanupCalls = 0
    /\ Exited => cleanupCalls = (IF Len(allTempImagePaths) > 0 THEN 1 ELSE 0)

\* C7 witness: a request with rasterised pages left through the catch block
\* after one cleanup
C7_Witness ==
    /\ Exited
    /\ IsSome(error)
    /\ Len(allTempImagePaths) > 0
    /\ cleanupCalls = 1

\* C8: a request whose batch size is zero or negative fails with an
\* invalid-configuration error (status 400), and no model call is made.
\* Stated for requests whose files all exist and in which nothing else
\* fails, so that a missing file or a failed rasterisation is not counted
\* against the claim.
C8_NonPositiveBatchSizeRejected ==
    (/\ IsSome(reqBody.batchSize)
     /\ Val(reqBody.batchSize) <= 0
     /\ Len(files) >= 1
     /\ \A n \in 1..Len(files) : files[n].exists) =>
        /\ calls = <<>>
        /\ (pc = "done" /\ error = None) =>
              (Len(responses) = 1 /\ responses[1].status = 400)

\* C9: mergeExtractedData changes none of its input results, and what it
\* returns is a new object, not one of the inputs, for every non-empty list
\* including the list of one.
C9_MergeReturnsFreshObject ==
    [][(pc = "merge" /\ pc' = "merged" /\ Len(allExtractedData) >= 1) =>
          /\ \A k \in 1..Len(allExtractedData) :
                heap'[allExtractedData[k]] = heap[allExtractedData[k]]
          /\ IsSome(merged')
          /\ \A k \in 1..Len(allExtractedData) : Val(merged') # allExtractedData[k]]_vars

\* C10: when none of several merged results has an
\* extraction_confidence.overall, the merged overall is null/absent.
C10_OverallNullWhenNonePresent ==
    (pc = "merged" /\ Len(allExtractedData) >= 2 /\ Len(PresentOveralls) = 0) =>
        MergedOverall = None

Merged == pc = "merged" /\ Len(allExtractedData) >= 2

\* C11: for bill-of-lading results, merging several batch results yields a
\* containers array that is the concatenation of every batch's containers
\* in batch order.
C11_ContainersConcatenated ==
    Merged =>
        OrEmpty(MergedObj.containers) =
            Flatten([k \in 1..Len(Inputs) |-> OrEmpty(Inputs[k].containers)])

\* Where the line items of input k start in the merged line items (0-based)
RECURSIVE ItemOffset(_)
ItemOffset(k) ==
    IF k = 1 THEN 0
    ELSE ItemOffset(k - 1) + Len(OrEmpty(Inputs[k - 1].line_items))

\* C12: merging r1..rn (n >= 2) yields line_items equal to r1's, then r2's,
\* ..., then rn's, every batch's order kept, nothing dropped, nothing
\* deduplicated; a result without line_items contributes nothing.
C12_LineItemsConcatenated ==
    Merged =>
        /\ IsSome(MergedObj.line_items)
        /\ Len(Val(MergedObj.line_items)) = ItemOffset(Len(Inputs) + 1)
        /\ \A k \in 1..Len(Inputs) :
             \A j \in 1..Len(OrEmpty(Inputs[k].line_items)) :
                Val(MergedObj.line_items)[ItemOffset(k) + j] =
                    Val(Inputs[k].line_items)[j]

\* C12 witness: three results were merged, the second without line_items,
\* the first and third sharing an item
C12_Witness ==
    /\ pc = "merged"
    /\ Len(allExtractedData) = 3
    /\ Inputs[1].line_items = Some(<<"a">>)
    /\ Inputs[2].line_items = None
    /\ Inputs[3].line_items = Some(<<"b", "a">>)

SeqToSet(xs) == {xs[k] : k \in 1..Len(xs)}

\* C13: merging several results yields missing_fields whose values are
\* exactly the union of the inputs' missing_fields, compared as exact
\* case-sensitive strings, no value twice.
C13_MissingFieldsUnion ==
    Merged =>
        /\ IsSome(MergedObj.missing_fields)
        /\ LET m == Val(MergedObj.missing_fields)
           IN  /\ SeqToSet(m) = UNION {SeqToSet(OrEmpty(Inputs[k].missing_fields)) :
                                         k \in 1..Len(Inputs)}
               /\ \A a, b \in 1..Len(m) : a # b => m[a] # m[b]

\* C13 witness: the inputs repeat a value and differ in the case of another
C13_Witness ==
    /\ Merged
    /\ Inputs[1].missing_fields = Some(<<"fob_value">>)
    /\ Inputs[2].missing_fields = Some(<<"fob_value", "insurance">>)
    /\ \E k \in 1..Len(Inputs) : Inputs[k].missing_fields = Some(<<"FOB_VALUE">>)

\* C14: in a merge of several results, every field other than the
\* concatenated arrays, missing_fields, extraction_confidence.overall and
\* extraction_confidence.line_items has the value it has in the first
\* batch's result: here the header field and the header score of
\* extraction_confidence.
C14_OtherFieldsFromFirst ==
    Merged =>
        /\ MergedObj.header = Inputs[1].header
        /\ IsSome(Inputs[1].extraction_confidence) =>
              /\ IsSome(MergedObj.extraction_confidence)
              /\ Val(MergedObj.extraction_confidence).header =
                    Val(Inputs[1].extraction_confidence).header

\* C15: merging a list of one result r returns a document whose content is
\* r's content.
C15_MergeOfOneIsIdentity ==
    [][(pc = "merge" /\ pc' = "merged" /\ Len(allExtractedData) = 1) =>
          /\ IsSome(merged')
          /\ heap'[Val(merged')] = heap[allExtractedData[1]]]_vars

\* C15 witness: a list of one result without line_items was merged
C15_Witness ==
    /\ pc = "merged"
    /\ Len(allExtractedData) = 1
    /\ IsSome(merged)
    /\ Inputs[1].line_items = None

\* C16: in a merge of several results, extraction_confidence.line_items is
\* the number of items of the merged line_items array.
C16_LineItemCount ==
    Merged =>
        /\ IsSome(MergedObj.extraction_confidence)
        /\ IsSome(MergedObj.line_items)
        /\ Val(MergedObj.extraction_confidence).line_items =
              Some(Q(Len(Val(MergedObj.line_items))))

\* C16 witness: three line items came from two results
C16_Witness ==
    /\ Merged
    /\ Len(Inputs) = 2
    /\ Inputs[1].line_items = Some(<<"a">>)
    /\ Inputs[2].line_items = Some(<<"b", "a">>)
    /\ Val(MergedObj.extraction_confidence).line_items = Some(Q(3))

RasterError == Some("Failed to convert PDF to images")

LastResponse == responses[Len(responses)]

\* C17: if rasterizing a PDF input reports an error or produces zero pages,
\* the request fails with a rasterization error, even when other input files
\* of the same request yield pages; it never proceeds with that PDF
\* contributing no pages.  The first conjunct is the request that left the
\* file loop at a PDF, the second the request that went on after a PDF of
\* zero pages and had every batch of the other files' pages extracted.
C17_RasterFailureFailsRequest ==
    /\ (/\ pc \in {"catch", "done"}
        /\ Len(responses) = 0 \/ LastResponse.status # 404
        /\ fileIdx < Len(files)) =>
          /\ error = RasterError
          /\ pc = "done" => LastResponse.status = 500 /\ LastResponse.error = RasterError
    /\ (/\ pc = "done"
        /\ \E n \in 1..fileIdx : isPdfFile(files[n]) /\ files[n].npages = 0
        /\ Len(allImagePaths) > 0
        /\ Len(batches) > 0 /\ Len(allExtractedData) = Len(batches)) =>
          /\ LastResponse.status = 500
          /\ LastResponse.error = RasterError

\* C18: a failure while deleting temporary files is never raised out of
\* cleanup: a request that fails with error E still reports E when deletion
\* also fails, and a request whose pipeline succeeded still returns its
\* merged document when deletion fails.
C18_DeletionFailureSwallowed ==
    [][(pc' = "done" /\ warned') =>
          /\ pc = "catch" =>
                /\ IsSome(error)
                /\ LastResponse'.status = 500
                /\ LastResponse'.error = error
          /\ pc = "batch" =>
                /\ IsSome(merged')
                /\ LastResponse'.status = 200
                /\ LastResponse'.success = Some(TRUE)
                /\ LastResponse'.data = Some(heap'[Val(merged')])
                /\ LastResponse'.error = None]_vars

\* C18 witness: the model call failed and then a page image could not be
\* deleted
C18_Witness ==
    /\ pc = "done"
    /\ warned
    /\ error = Some("provider error")
    /\ \E n \in TempNames : existsSync(disk, TempPath(n))

\* C19: after any request, successful or failed, every directly supplied
\* image file that existed before the request still exists.
C19_DirectImagesKept ==
    \A n \in 1..Len(files) :
        (files[n].exists /\ ~isPdfFile(files[n])) => existsSync(disk, UploadPath(n))

\* C19 witness: a request of a PDF and an image ended, its cleanup having
\* deleted the pages of the PDF
C19_Witness ==
    /\ pc = "done"
    /\ cleanupCalls = 1
    /\ Len(allTempImagePaths) > 0
    /\ \A n \in TempNames : ~existsSync(disk, TempPath(n))
    /\ \E n \in 1..Len(files) : ~isPdfFile(files[n]) /\ existsSync(disk, UploadPath(n))

\* C20: if any requested input file is missing, /api/extract answers with
\* status 404 naming every missing file at once, before any rasterization
\* or model call is made for the request.
C20_MissingFiles404 ==
    (pc # "idle" /\ \E n \in 1..Len(files) : ~files[n].exists) =>
        /\ pc = "done"
        /\ Len(responses) = 1
        /\ responses[1].status = 404
        /\ responses[1].missing =
              SelectSeq([n \in 1..Len(files) |-> UploadPath(n)],
                        LAMBDA p : ~files[p.n].exists)
        /\ calls = <<>>
        /\ fileIdx = 0
        /\ \A n \in TempNames : ~existsSync(disk, TempPath(n))
        /\ cleanupCalls = 0

\* C20 witness: both files of a request were missing and both were named
C20_Witness ==
    /\ pc = "done"
    /\ Len(files) = 2
    /\ \A n \in 1..2 : ~files[n].exists
    /\ Len(responses) = 1
    /\ responses[1].status = 404
    /\ Len(responses[1].missing) = 2

\* The prompt the routing rule names for the tag a request carries: the
\* listed tags as written, and the master-bill prompt for anything else
RoutedPrompt(dt) ==
    IF dt = Some(JStr("COMMERCIAL_INVOICE")) \/ dt = Some(JStr("INVOICE"))
    THEN "COMMERCIAL_INVOICE_PROMPT"
    ELSE IF dt = Some(JStr("HBL")) THEN "HBLPROMPT"
    ELSE "MBL_PROMPT"

\* C21: COMMERCIAL_INVOICE and INVOICE select the invoice prompt, HBL the
\* house-bill prompt, MBL the master-bill prompt, and every other value,
\* including an absent one, the master-bill prompt: selecting the prompt
\* never fails, and every model call carries the prompt so selected.
C21_DocumentTypeRouting ==
    /\ error # Some("documentType?.toUpperCase is not a function")
    /\ \A k \in 1..Len(calls) : calls[k].prompt = RoutedPrompt(reqBody.documentType)

\* C22: an input file is classified by its content signature and not by its
\* filename extension: a file whose bytes start with the PDF signature is
\* treated as a PDF whatever its extension is, so it is never taken as a
\* page image itself.
C22_ClassifiedBySignature ==
    \A k \in 1..Len(allImagePaths) :
        allImagePaths[k].dir = "uploads" => files[allImagePaths[k].n].sig # "pdf"

\* A failure of the pipeline: an error was thrown, or a PDF that was
\* rasterized gave no page
PipelineFailed ==
    \/ IsSome(error)
    \/ \E n \in 1..fileIdx : isPdfFile(files[n]) /\ files[n].npages = 0

\* C23: every failure inside the extraction pipeline (rasterization error,
\* unreadable image, provider failure, non-JSON model response) is answered
\* with status 500 and a structured error carrying a message, never with a
\* success body.
C23_FailuresAnswered500 ==
    (pc = "done" /\ PipelineFailed) =>
        /\ Len(responses) = 1
        /\ responses[1].status = 500
        /\ responses[1].success = Some(FALSE)
        /\ IsSome(responses[1].error)
        /\ responses[1].data = None

\* The pages of batch k as the batch loop reads them
BatchImages(k) ==
    [j \in 1..Len(batches[k]) |-> readFileSync(disk, batches[k][j])]

\* C24: within one request, batches are submitted to the model strictly in
\* batch order and one at a time: the call for batch k+1 is never started
\* before the call for batch k has resolved, and results are accumulated in
\* submission order.
C24_BatchesOneAtATime ==
    /\ Len(calls) <= Len(allExtractedData) + 1
    /\ pc = "calling" =>
          /\ Len(calls) = Len(allExtractedData) + 1
          /\ batchIndex = Len(allExtractedData)
    /\ pc = "batch" =>
          /\ Len(calls) = Len(allExtractedData)
          /\ batchIndex = Len(allExtractedData)
    /\ pc \in {"batch", "calling"} =>
          \A k \in 1..Len(calls) : calls[k].images = BatchImages(k)
    /\ \A k \in 1..Len(allExtractedData) : allExtractedData[k] = k

\* C24 witness: the second batch was sent after the first had resolved
C24_Witness ==
    /\ pc = "calling"
    /\ Len(batches) >= 2
    /\ Len(calls) = 2
    /\ Len(allExtractedData) = 1

\* C25: within one request every batch is submitted to the model at most
\* once (no retry after a failure), and in a successful request the number
\* of model calls equals the number of batches.
C25_EachBatchOnce ==
    /\ Len(calls) <= Len(batches)
    /\ Succeeded => Len(calls) = Len(batches)
    /\ (pc \in {"catch", "done"} /\ BatchFailed) =>
          Len(calls) = Len(allExtractedData) + 1

\* C25 witness: three pages in batches of two gave exactly two calls
C25_Witness ==
    /\ Succeeded
    /\ Len(allImagePaths) = 3
    /\ batchSize = 2
    /\ Len(batches) = 2
    /\ Len(calls) = 2

\* The document type of the request: the tag of the body, or the default
RequestDocumentType ==
    IF IsSome(reqBody.documentType) THEN Val(reqBody.documentType) ELSE JStr("MBL")

\* C27: every model request built for a batch consists of the prompt
\* selected for the request's document type followed by exactly the images
\* of that batch, one entry per page, in batch order; the same prompt is
\* used for every batch of the request.
C27_RequestContent ==
    \A k \in 1..Len(calls) :
        /\ calls[k].prompt = getPromptForDocumentType(RequestDocumentType).prompt
        /\ calls[k].prompt = calls[1].prompt
        /\ Len(calls[k].images) = Len(batches[k])
        /\ pc \in {"batch", "calling", "catch"} => calls[k].images = BatchImages(k)

\* C27 witness: two batches of an invoice were sent, the first of two pages
C27_Witness ==
    /\ Len(calls) = 2
    /\ reqBody.documentType = Some(JStr("invoice"))
    /\ calls[2].prompt = "COMMERCIAL_INVOICE_PROMPT"
    /\ Len(calls[1].images) = 2
    /\ Len(calls[2].images) = 1

\* C28: every /api/extract request eventually receives exactly one response
\* (success, 404 or 500), for every batch size the caller may send, provided
\* each rasterization and model call eventually returns or fails.
C28_EventuallyOneResponse ==
    /\ <>(pc = "done" /\ Len(responses) = 1)
    /\ [](Len(responses) <= 1)

\* C29: during cleanup, a failure to delete one temporary page file does not
\* prevent the deletion of the others: every page file whose own deletion
\* succeeds is gone after cleanup returns.
C29_CleanupDeletesTheRest ==
    (pc = "done" /\ cleanupCalls = 1) =>
        \A n \in TempNames :
            existsSync(disk, TempPath(n)) => TempPath(n) \in unlinkFails

\* C26: when two requests that both contain PDFs interleave at their await
\* points, each request's batches contain only pages rasterized from its own
\* input files, and no request's cleanup deletes a page file that the other,
\* still running, has yet to read.
C26_RequestsIsolated ==
    /\ \A k \in 1..Len(calls) : \A j \in 1..Len(calls[k].images) :
          calls[k].images[j].file \in 1..Len(files)
    /\ \A j \in 1..Len(other.images) : other.images[j].file = OtherFile
    /\ error # Some("Image file not found")
    /\ other.error # Some("No images to process")

====
